---- MODULE Spec2Model ----
(***************************************************************************)
(* The stage runtime ("Exercise") of the game map and the resize relays    *)
(* between the embedded instances and the main instance.                   *)
(*                                                                         *)
(* JavaScript runs every handler to completion, so each exposed operation  *)
(* is one action.  The one place where the order inside a synchronous turn *)
(* matters is the dispatch of a `resize` event through the upward and the  *)
(* downward relay: that dispatch is modelled listener by listener with an  *)
(* explicit call stack, and no other operation runs while the stack is not *)
(* empty.                                                                  *)
(*                                                                         *)
(* Fields that JavaScript leaves `undefined` and only ever tests for       *)
(* truthiness (isAttached, isShowingSolutions, bubblingUpwards, observer)  *)
(* are modelled as FALSE.  `state` and `score` are numbers or Undefined.   *)
(***************************************************************************)
EXTENDS Integers, Sequences, FiniteSets, TLC

\* ------------------------------------------------------------------ bounds
NumStages       == 2   \* stages of a map in the relay specification
MaxM            == 2   \* the positive max score of a scored content
MaxFactoryCalls == 2   \* factory invocations explored per stage
MaxPending      == 1   \* deferred callbacks (idle, animation frame) pending per stage
MaxDepth        == 3   \* nested trigger() calls explored in one turn
MaxResets       == 3   \* reset() calls per stage where they are counted

\* JavaScript's undefined and null where a number is expected.
Undefined == -1
Null      == -2

\* Globals.set('states', {...}): the code table.
states ==
  [unstarted |-> 0, locked |-> 1, unlocking |-> 2, open |-> 3,
   opened |-> 4, completed |-> 5, cleared |-> 6]

\* ------------------------------------------------------- embedded contents
\* What the code probes on an embedded instance: the isTask flag, the
\* getMaxScore query (NoMax: no such function) and the optional resetTask and
\* showSolutions capabilities.
NoMax == Undefined

Contents ==
  [isTask : {"absent", "true", "false"}, maxScore : {NoMax, 0, MaxM},
   resetTask : BOOLEAN, showSolutions : BOOLEAN]

\* The contents the factory hands out here: a scored question type, a plain
\* content with no question-type contract, and a content that declares itself
\* a task.
FactoryContents ==
  { [isTask |-> "absent", maxScore |-> MaxM,  resetTask |-> TRUE,  showSolutions |-> TRUE],
    [isTask |-> "absent", maxScore |-> NoMax, resetTask |-> FALSE, showSolutions |-> FALSE],
    [isTask |-> "true",   maxScore |-> 0,     resetTask |-> TRUE,  showSolutions |-> TRUE] }

NoContent ==
  [isTask |-> "absent", maxScore |-> NoMax, resetTask |-> FALSE, showSolutions |-> FALSE]

\* What H5P.newRunnable can return: an instance, or a falsy value.
FactoryOutcomes == {"object", "undefined", "false", "null"}

Truthy(inst) == inst = "object"

VARIABLES
  stages,              \* the stages of the map (fixed when the map is built)
  instance,            \* [stage -> "undefined" | "null" | "false" | "object"]
  content,             \* [stage -> the embedded content when instance is an object]
  state,               \* [stage -> state code or Undefined]
  score,               \* [stage -> number or Undefined]
  isAttached,          \* [stage -> BOOLEAN]
  isShowingSolutions,  \* [stage -> BOOLEAN]
  observer,            \* [stage -> BOOLEAN] the IntersectionObserver exists
  observing,           \* [stage -> BOOLEAN] the observer observes this.dom
  pendingIdle,         \* [stage -> pending requestIdleCallback callbacks]
  pendingFrames,       \* [stage -> pending requestAnimationFrame callbacks]
  factoryCalls,        \* [stage -> H5P.newRunnable invocations so far]
  upRelays,            \* [stage -> `resize` listeners bubbleUp put on the instance]
  xapiSubs,            \* [stage -> `xAPI` listeners put on the instance]
  attachCalls,         \* [stage -> instance.attach invocations so far]
  observersCreated,    \* [stage -> IntersectionObservers constructed so far]
  mainListeners,       \* `resize` listeners bubbleDown put on the main instance, in order
  bubblingUpwards,     \* mainInstance.bubblingUpwards
  stack,               \* the trigger() calls in progress, innermost last
  seen,                \* main.trigger('resize') calls in the current/last turn
  delivered,           \* [stage -> instance.trigger('resize') by a downward relay, this turn]
  resets,              \* [stage -> reset() calls so far, where they are counted]
  observerViews,       \* [stage -> handleViewed() calls by the observer, likewise]
  last                 \* what the most recent operation did (its calls out)

vars ==
  << stages, instance, content, state, score, isAttached, isShowingSolutions, observer,
     observing, pendingIdle, pendingFrames, factoryCalls, upRelays, xapiSubs,
     attachCalls, observersCreated, mainListeners, bubblingUpwards, stack, seen,
     delivered, resets, observerViews, last >>

stageVars ==
  << stages, instance, content, state, score, isAttached, isShowingSolutions, observer,
     observing, pendingIdle, pendingFrames, factoryCalls, upRelays, xapiSubs,
     attachCalls, observersCreated, mainListeners, resets, observerViews >>

\* A setState request: a number, a symbolic name, or any other value.
Num(n) == [kind |-> "number", code |-> n, name |-> ""]
Str(s) == [kind |-> "string", code |-> Undefined, name |-> s]
Other  == [kind |-> "other", code |-> Undefined, name |-> ""]

\* What a query returns: a number, a boolean, the instance's xAPI data,
\* undefined; NoReturn for an operation that returns nothing or threw.
NoReturn     == [kind |-> "none", val |-> Undefined]
Number(n)    == [kind |-> "number", val |-> n]
Boolean(b)   == [kind |-> "boolean", val |-> IF b THEN 1 ELSE 0]
XAPIData     == [kind |-> "object", val |-> Undefined]
UndefinedRet == [kind |-> "undefined", val |-> Undefined]

\* ------------------------------------------------------------ the call log
\* The calls an operation makes out of the stage: the callbacks with their
\* arguments, the calls into the embedded instance and the factory, and
\* whether the operation ended by throwing; for a setState call from outside
\* its arguments, for a scoring event its score; for handleViewed the calls
\* it makes, in the order it makes them.
Quiet(op, i) ==
  [op |-> op, stage |-> i, cbState |-> <<>>, cbScore |-> <<>>, factory |-> 0,
   attach |-> 0, resetTask |-> 0, showSolutions |-> 0, threw |-> FALSE,
   request |-> Other, force |-> FALSE, eventScore |-> Undefined,
   returned |-> NoReturn, calls |-> <<>>]

NoDeliveries == [j \in stages |-> 0]

\* ------------------------------------------------------------- setState
Codes == 0 .. (states.cleared + 1)
Names == DOMAIN states \cup {"bogus"}
Requests == {Num(n) : n \in Codes} \cup {Str(s) : s \in Names} \cup {Other}

\* The property key a number indexes an object with: its decimal string.
KeyOf(n) == <<"0", "1", "2", "3", "4", "5", "6", "7">>[n + 1]

\* states[key]: the value of the property, undefined when there is none.
Lookup(key) == IF key \in DOMAIN states THEN states[key] ELSE Undefined

\* !x for a number or undefined.
Falsy(x) == x = Undefined \/ x = 0

\* isInstanceTask(instance)
isInstanceTask(inst, c) ==
  IF ~Truthy(inst) THEN FALSE
  ELSE IF c.isTask = "true" THEN TRUE
  ELSE c.maxScore # NoMax /\ c.maxScore > 0

\* Mutant of ResolveState: `opened` is stored as requested, task or not.
ResolveState_NoTaskBranch(code, task) ==
  IF code \in {states.unstarted, states.opened, states.completed, states.cleared}
  THEN code ELSE Undefined

\* The non-forced branches of setState: the new state for a requested code.
ResolveState(code, task) ==
  IF code = states.unstarted THEN states.unstarted
  ELSE IF code = states.opened
       THEN (IF task THEN states.opened ELSE states.cleared)
  ELSE IF code = states.completed THEN states.completed
  ELSE IF code = states.cleared THEN states.cleared
  ELSE Undefined

\* The forced branch: newState = states[state], the table indexed by the code.
ForcedState(code) == Lookup(KeyOf(code))

\* The test that guards the assignment and the callback.
StateChanges(cur, newState) == Falsy(cur) \/ cur # newState

\* setState(request, {force}) on a stage whose state is cur: the state stored,
\* the arguments onStateChanged was called with, and whether it threw.
setState(cur, task, request, force) ==
  LET found == request.kind # "string" \/ request.name \in DOMAIN states
      code == IF request.kind = "string" /\ found
              THEN states[request.name] ELSE request.code
      isNumber == request.kind = "number" \/ (request.kind = "string" /\ found)
      newState == IF force THEN ForcedState(code) ELSE ResolveState(code, task)
  IN  IF ~found
        THEN [state |-> cur, fired |-> <<>>, threw |-> TRUE]
      ELSE IF ~isNumber
        THEN [state |-> cur, fired |-> <<>>, threw |-> FALSE]
      ELSE IF StateChanges(cur, newState)
        THEN [state |-> newState, fired |-> <<newState>>, threw |-> FALSE]
      ELSE [state |-> cur, fired |-> <<>>, threw |-> FALSE]

IsTask(i) == isInstanceTask(instance[i], content[i])

\* --------------------------------------------------- initializeInstance
\* The guard of initializeInstance: an instance, or null, ends the call.
AlreadyInitialized(inst) == inst = "null" \/ Truthy(inst)

\* initializeInstance() on a stage whose instance field is inst, with the
\* factory answering `outcome` (and content c when that is an instance): the
\* new field values, the factory calls made and the listeners registered.
initializeInstance(inst, cur, outcome, c) ==
  IF AlreadyInitialized(inst)
    THEN [instance |-> inst, content |-> cur, factory |-> 0, up |-> 0, down |-> 0,
          xapi |-> 0]
  ELSE IF ~Truthy(outcome)
    THEN [instance |-> outcome, content |-> NoContent, factory |-> 1, up |-> 0,
          down |-> 0, xapi |-> 0]
  ELSE [instance |-> outcome, content |-> c, factory |-> 1, up |-> 1, down |-> 1,
        xapi |-> IF isInstanceTask(outcome, c) THEN 1 ELSE 0]

\* The contents a factory outcome can come with.
ContentsOf(outcome) == IF Truthy(outcome) THEN FactoryContents ELSE {NoContent}

Repeat(x, n) == [k \in 1 .. n |-> x]

\* ------------------------------------------------------------------- Init
\* The map after the constructors of all its stages have run, in stage order:
\* each did setState(unstarted) on an undefined state and initializeInstance().
Constructed(i, outcome, c) == initializeInstance("undefined", NoContent, outcome, c)

RECURSIVE ListenersOf(_, _)
ListenersOf(made, i) ==
  IF i = 0 THEN <<>>
  ELSE ListenersOf(made, i - 1) \o Repeat(i, made[i].down)

InitWith(n, handedOut) ==
  \E outcome \in [1 .. n -> FactoryOutcomes] :
  \E c \in [1 .. n -> handedOut \cup {NoContent}] :
    /\ \A i \in 1 .. n : c[i] \in IF Truthy(outcome[i]) THEN handedOut ELSE {NoContent}
    /\ stages = 1 .. n
    /\ LET made == [i \in 1 .. n |-> Constructed(i, outcome[i], c[i])]
           first == setState(Undefined, FALSE, Num(states.unstarted), FALSE)
       IN  /\ instance = [i \in 1 .. n |-> made[i].instance]
           /\ content = [i \in 1 .. n |-> made[i].content]
           /\ state = [i \in 1 .. n |-> first.state]
           /\ factoryCalls = [i \in 1 .. n |-> made[i].factory]
           /\ upRelays = [i \in 1 .. n |-> made[i].up]
           /\ xapiSubs = [i \in 1 .. n |-> made[i].xapi]
           /\ mainListeners = ListenersOf(made, n)
           /\ last = [Quiet("constructor", n) EXCEPT
                        !.cbState = first.fired, !.factory = made[n].factory]
    /\ score = [i \in 1 .. n |-> Undefined]
    /\ isAttached = [i \in 1 .. n |-> FALSE]
    /\ isShowingSolutions = [i \in 1 .. n |-> FALSE]
    /\ observer = [i \in 1 .. n |-> FALSE]
    /\ observing = [i \in 1 .. n |-> FALSE]
    /\ pendingIdle = [i \in 1 .. n |-> 0]
    /\ pendingFrames = [i \in 1 .. n |-> 0]
    /\ attachCalls = [i \in 1 .. n |-> 0]
    /\ observersCreated = [i \in 1 .. n |-> 0]
    /\ bubblingUpwards = FALSE
    /\ stack = <<>>
    /\ seen = 0
    /\ delivered = [i \in 1 .. n |-> 0]
    /\ resets = [i \in 1 .. n |-> 0]
    /\ observerViews = [i \in 1 .. n |-> 0]

InitMap(n) == InitWith(n, FactoryContents)

\* An operation of a stage starts only between turns, and closes the tallies
\* of the last resize turn.
Idle == stack = <<>>
NoTurn == /\ seen' = 0
          /\ delivered' = NoDeliveries
          /\ UNCHANGED << bubblingUpwards, stack >>

\* ----------------------------------------------------- stage operations
\* A further initializeInstance() call.
InitializeInstance(i) ==
  /\ Idle
  /\ \E outcome \in FactoryOutcomes : \E c \in ContentsOf(outcome) :
       LET r == initializeInstance(instance[i], content[i], outcome, c)
       IN  /\ factoryCalls[i] + r.factory <= MaxFactoryCalls
           /\ instance' = [instance EXCEPT ![i] = r.instance]
           /\ content' = [content EXCEPT ![i] = r.content]
           /\ factoryCalls' = [factoryCalls EXCEPT ![i] = @ + r.factory]
           /\ upRelays' = [upRelays EXCEPT ![i] = @ + r.up]
           /\ xapiSubs' = [xapiSubs EXCEPT ![i] = @ + r.xapi]
           /\ mainListeners' = mainListeners \o Repeat(i, r.down)
           /\ last' = [Quiet("initializeInstance", i) EXCEPT !.factory = r.factory]
  /\ NoTurn
  /\ UNCHANGED << stages, resets, observerViews >>
  /\ UNCHANGED << state, score, isAttached, isShowingSolutions, observer, observing,
                  pendingIdle, pendingFrames, attachCalls, observersCreated >>

\* Mutant of attachInstance: the isAttached guard is missing.
attachInstance_NoGuard(attached, inst) ==
  IF ~Truthy(inst) THEN [attach |-> 0, threw |-> TRUE, isAttached |-> attached]
  ELSE [attach |-> 1, threw |-> FALSE, isAttached |-> TRUE]

\* attachInstance() on stage i: whether instance.attach is called, whether
\* that call throws (there is no instance to call it on), and isAttached after.
attachInstance(attached, inst) ==
  IF attached THEN [attach |-> 0, threw |-> FALSE, isAttached |-> attached]
  ELSE IF ~Truthy(inst) THEN [attach |-> 0, threw |-> TRUE, isAttached |-> attached]
  ELSE [attach |-> 1, threw |-> FALSE, isAttached |-> TRUE]

AttachInstance(i) ==
  /\ Idle
  /\ LET a == attachInstance(isAttached[i], instance[i])
     IN  /\ isAttached' = [isAttached EXCEPT ![i] = a.isAttached]
         /\ attachCalls' = [attachCalls EXCEPT ![i] = @ + a.attach]
         /\ last' = [Quiet("attachInstance", i) EXCEPT
                       !.attach = a.attach, !.threw = a.threw]
  /\ NoTurn
  /\ UNCHANGED << stages, resets, observerViews >>
  /\ UNCHANGED << instance, content, state, score, isShowingSolutions, observer,
                  observing, pendingIdle, pendingFrames, factoryCalls, upRelays,
                  xapiSubs, observersCreated, mainListeners >>

\* instance?.showSolutions?.(): the calls it makes.
showSolutionsCalls(inst, c) == IF Truthy(inst) /\ c.showSolutions THEN 1 ELSE 0

\* Mutant of ShowSolutions: the request is not remembered.
ShowSolutions_NoFlag(i) ==
  /\ Idle
  /\ last' = [Quiet("showSolutions", i) EXCEPT
                !.showSolutions = showSolutionsCalls(instance[i], content[i])]
  /\ NoTurn
  /\ UNCHANGED << stages, resets, observerViews >>
  /\ UNCHANGED << instance, content, state, score, isAttached, isShowingSolutions,
                  observer, observing, pendingIdle, pendingFrames, factoryCalls,
                  upRelays, xapiSubs, attachCalls, observersCreated, mainListeners >>

\* showSolutions()
ShowSolutions(i) ==
  /\ Idle
  /\ isShowingSolutions' = [isShowingSolutions EXCEPT ![i] = TRUE]
  /\ last' = [Quiet("showSolutions", i) EXCEPT
                !.showSolutions = showSolutionsCalls(instance[i], content[i])]
  /\ NoTurn
  /\ UNCHANGED << stages, resets, observerViews >>
  /\ UNCHANGED << instance, content, state, score, isAttached, observer, observing,
                  pendingIdle, pendingFrames, factoryCalls, upRelays, xapiSubs,
                  attachCalls, observersCreated, mainListeners >>

\* What the caller of handleViewed() does first: the intersection callback
\* stops observing the container.
Before(op) == IF op = "intersection" THEN << "unobserve" >> ELSE << >>

\* The calls of handleViewed() in their order; attachInstance() throwing ends it.
viewedCalls(flag, threw) ==
  << "attachInstance" >> \o
    (IF threw THEN << >>
     ELSE (IF flag THEN << "showSolutions" >> ELSE << >>) \o
          << "setState", "requestAnimationFrame" >>)

\* Mutant of Viewed: handleViewed() does not attach the instance.
Viewed_NoAttach(i, op) ==
  LET a == [attach |-> 0, threw |-> FALSE, isAttached |-> isAttached[i]]
      r == setState(state[i], IsTask(i), Str("opened"), FALSE)
      shows == IF isShowingSolutions[i]
               THEN showSolutionsCalls(instance[i], content[i]) ELSE 0
  IN  /\ pendingFrames[i] < MaxPending
      /\ isAttached' = [isAttached EXCEPT ![i] = a.isAttached]
      /\ attachCalls' = [attachCalls EXCEPT ![i] = @ + a.attach]
      /\ state' = [state EXCEPT ![i] = r.state]
      /\ pendingFrames' = [pendingFrames EXCEPT ![i] = @ + 1]
      /\ last' = [Quiet(op, i) EXCEPT
                    !.attach = a.attach, !.showSolutions = shows,
                    !.cbState = r.fired,
                    !.calls = Before(op) \o Tail(viewedCalls(isShowingSolutions[i], FALSE))]

\* handleViewed() on stage i, called directly (op = "handleViewed") or by the
\* intersection callback: attachInstance(), showSolutions() when the flag is
\* set, setState('opened'), and the resize left to the next animation frame.
\* When attachInstance() throws, nothing after it runs.
Viewed(i, op) ==
  LET a == attachInstance(isAttached[i], instance[i])
      r == setState(state[i], IsTask(i), Str("opened"), FALSE)
      shows == IF isShowingSolutions[i]
               THEN showSolutionsCalls(instance[i], content[i]) ELSE 0
  IN  IF a.threw
        THEN /\ last' = [Quiet(op, i) EXCEPT
                           !.threw = TRUE,
                           !.calls = Before(op) \o viewedCalls(isShowingSolutions[i], TRUE)]
             /\ UNCHANGED << isAttached, attachCalls, state, pendingFrames >>
        ELSE /\ pendingFrames[i] < MaxPending
             /\ isAttached' = [isAttached EXCEPT ![i] = a.isAttached]
             /\ attachCalls' = [attachCalls EXCEPT ![i] = @ + a.attach]
             /\ state' = [state EXCEPT ![i] = r.state]
             /\ pendingFrames' = [pendingFrames EXCEPT ![i] = @ + 1]
             /\ last' = [Quiet(op, i) EXCEPT
                           !.attach = a.attach, !.showSolutions = shows,
                           !.cbState = r.fired,
                           !.calls = Before(op) \o viewedCalls(isShowingSolutions[i], FALSE)]

HandleViewed(i) ==
  /\ Idle
  /\ Viewed(i, "handleViewed")
  /\ NoTurn
  /\ UNCHANGED << stages, resets, observerViews >>
  /\ UNCHANGED << instance, content, score, isShowingSolutions, observer, observing,
                  pendingIdle, factoryCalls, upRelays, xapiSubs, observersCreated,
                  mainListeners >>

\* Mutant of resetTaskCalls: resetTask is called whether attached or not.
resetTaskCalls_Unguarded(attached, inst, c) ==
  IF Truthy(inst) /\ c.resetTask THEN 1 ELSE 0

\* instance?.resetTask?.() under `if (this.isAttached)`: the calls it makes.
resetTaskCalls(attached, inst, c) ==
  IF attached /\ Truthy(inst) /\ c.resetTask THEN 1 ELSE 0

\* Mutant of Reset: no idle callback is requested.
Reset_NoIdle(i) ==
  /\ Idle
  /\ LET r == setState(state[i], IsTask(i), Num(states.unstarted), FALSE)
     IN  /\ score' = [score EXCEPT ![i] = 0]
         /\ state' = [state EXCEPT ![i] = r.state]
         /\ last' = [Quiet("reset", i) EXCEPT
                       !.cbState = r.fired,
                       !.resetTask = resetTaskCalls(isAttached[i], instance[i], content[i])]
  /\ isShowingSolutions' = [isShowingSolutions EXCEPT ![i] = FALSE]
  /\ NoTurn
  /\ UNCHANGED stages
  /\ UNCHANGED << instance, content, isAttached, observer, observing, pendingIdle,
                  pendingFrames, factoryCalls, upRelays, xapiSubs, attachCalls,
                  observersCreated, mainListeners >>

\* reset().  The count of reset() calls is kept by the specification that
\* counts them.
Reset(i) ==
  /\ Idle
  /\ pendingIdle[i] < MaxPending
  /\ LET r == setState(state[i], IsTask(i), Num(states.unstarted), FALSE)
     IN  /\ score' = [score EXCEPT ![i] = 0]
         /\ state' = [state EXCEPT ![i] = r.state]
         /\ last' = [Quiet("reset", i) EXCEPT
                       !.cbState = r.fired,
                       !.resetTask = resetTaskCalls(isAttached[i], instance[i], content[i])]
  /\ pendingIdle' = [pendingIdle EXCEPT ![i] = @ + 1]
  /\ isShowingSolutions' = [isShowingSolutions EXCEPT ![i] = FALSE]
  /\ NoTurn
  /\ UNCHANGED stages
  /\ UNCHANGED << instance, content, isAttached, observer, observing, pendingFrames,
                  factoryCalls, upRelays, xapiSubs, attachCalls, observersCreated,
                  mainListeners >>

\* Mutant of IdleCallback: a new observer is made whether or not one exists.
IdleCallback_NewObserver(i) ==
  /\ Idle
  /\ pendingIdle[i] > 0
  /\ pendingIdle' = [pendingIdle EXCEPT ![i] = @ - 1]
  /\ observer' = [observer EXCEPT ![i] = TRUE]
  /\ observersCreated' = [observersCreated EXCEPT ![i] = @ + 1]
  /\ observing' = [observing EXCEPT ![i] = TRUE]
  /\ last' = Quiet("idleCallback", i)
  /\ NoTurn
  /\ UNCHANGED << stages, resets, observerViews >>
  /\ UNCHANGED << instance, content, state, score, isAttached, isShowingSolutions,
                  pendingFrames, factoryCalls, upRelays, xapiSubs, attachCalls,
                  mainListeners >>

\* The callback reset() handed to requestIdleCallback.
IdleCallback(i) ==
  /\ Idle
  /\ pendingIdle[i] > 0
  /\ pendingIdle' = [pendingIdle EXCEPT ![i] = @ - 1]
  /\ observer' = [observer EXCEPT ![i] = TRUE]
  /\ observersCreated' = [observersCreated EXCEPT ![i] = IF observer[i] THEN @ ELSE @ + 1]
  /\ observing' = [observing EXCEPT ![i] = TRUE]
  /\ last' = Quiet("idleCallback", i)
  /\ NoTurn
  /\ UNCHANGED << stages, resets, observerViews >>
  /\ UNCHANGED << instance, content, state, score, isAttached, isShowingSolutions,
                  pendingFrames, factoryCalls, upRelays, xapiSubs, attachCalls,
                  mainListeners >>

\* Mutant of Intersection: the observer keeps observing the container.
Intersection_KeepObserving(i) ==
  /\ Idle
  /\ observing[i]
  /\ \E isIntersecting \in BOOLEAN :
       IF isIntersecting
         THEN /\ UNCHANGED observing
              /\ Viewed(i, "intersection")
         ELSE /\ last' = Quiet("notIntersecting", i)
              /\ UNCHANGED << observing, isAttached, attachCalls, state, pendingFrames >>
  /\ NoTurn
  /\ UNCHANGED stages
  /\ UNCHANGED << instance, content, score, isShowingSolutions, observer, pendingIdle,
                  factoryCalls, upRelays, xapiSubs, observersCreated, mainListeners >>

\* The IntersectionObserver callback, for an observed container.  The count
\* of its handleViewed() calls is kept by the specification that counts them.
Intersection(i) ==
  /\ Idle
  /\ observing[i]
  /\ \E isIntersecting \in BOOLEAN :
       IF isIntersecting
         THEN /\ observing' = [observing EXCEPT ![i] = FALSE]
              /\ Viewed(i, "intersection")
         ELSE /\ last' = Quiet("notIntersecting", i)
              /\ UNCHANGED << observing, isAttached, attachCalls, state, pendingFrames >>
  /\ NoTurn
  /\ UNCHANGED stages
  /\ UNCHANGED << instance, content, score, isShowingSolutions, observer, pendingIdle,
                  factoryCalls, upRelays, xapiSubs, observersCreated, mainListeners >>

\* A setState call from outside the stage, with any request.
SetState(i) ==
  /\ Idle
  /\ \E request \in Requests : \E force \in BOOLEAN :
       LET r == setState(state[i], IsTask(i), request, force)
       IN  /\ state' = [state EXCEPT ![i] = r.state]
           /\ last' = [Quiet("setState", i) EXCEPT
                         !.cbState = r.fired, !.threw = r.threw,
                         !.request = request, !.force = force]
  /\ NoTurn
  /\ UNCHANGED << stages, resets, observerViews >>
  /\ UNCHANGED << instance, content, score, isAttached, isShowingSolutions, observer,
                  observing, pendingIdle, pendingFrames, factoryCalls, upRelays,
                  xapiSubs, attachCalls, observersCreated, mainListeners >>

\* ---------------------------------------------------------------- queries
\* What this.instance?.query?.() evaluates to: undefined when there is no
\* instance (or no such query on it), else what the instance answers.
Answers(inst, values) == IF Truthy(inst) THEN values \cup {Undefined} ELSE {Undefined}

\* A query of stage i leaves the stage as it is.
Query(i, op, result, threw) ==
  /\ Idle
  /\ last' = [Quiet(op, i) EXCEPT !.returned = result, !.threw = threw]
  /\ NoTurn
  /\ UNCHANGED stageVars

\* getScore(): the instance's score when that is a number, else 0.
getScore(answer) == IF answer # Undefined THEN Number(answer) ELSE Number(0)

GetScore(i) ==
  \E answer \in Answers(instance[i], 0 .. MaxM) :
    Query(i, "getScore", getScore(answer), FALSE)

\* getMaxScore(): the instance's max score when that is a number, else 0.
getMaxScore(inst, c) ==
  IF Truthy(inst) /\ c.maxScore # NoMax THEN Number(c.maxScore) ELSE Number(0)

GetMaxScore(i) == Query(i, "getMaxScore", getMaxScore(instance[i], content[i]), FALSE)

\* getAnswerGiven(): the instance's answer, false when there is none.
getAnswerGiven(answer) == IF answer # Undefined THEN Boolean(answer = 1) ELSE Boolean(FALSE)

GetAnswerGiven(i) ==
  \E answer \in Answers(instance[i], {0, 1}) :
    Query(i, "getAnswerGiven", getAnswerGiven(answer), FALSE)

\* getXAPIData(): this.instance.getXAPIData?.() reads a property of
\* this.instance, which throws a TypeError on undefined and on null; on
\* false (and on an instance with no getXAPIData) the call yields undefined.
getXAPIData(inst, hasData) ==
  IF inst \in {"undefined", "null"} THEN [returned |-> NoReturn, threw |-> TRUE]
  ELSE IF Truthy(inst) /\ hasData THEN [returned |-> XAPIData, threw |-> FALSE]
  ELSE [returned |-> UndefinedRet, threw |-> FALSE]

GetXAPIData(i) ==
  \E hasData \in BOOLEAN :
    LET g == getXAPIData(instance[i], hasData)
    IN  Query(i, "getXAPIData", g.returned, g.threw)

\* isInstanceTask(this.instance), asked of stage i.
IsInstanceTask(i) ==
  Query(i, "isInstanceTask", Boolean(isInstanceTask(instance[i], content[i])), FALSE)

\* ---------------------------------------------------------------- scoring
EventScores == {Null} \cup (0 .. MaxM)

\* Mutant of ScoredState: a score equal to the max score counts as below it.
ScoredState_Inclusive(s, m) == IF s <= m THEN states.completed ELSE states.cleared

\* The state trackXAPI asks for, for a score and the instance's max score.
ScoredState(s, m) == IF s < m THEN states.completed ELSE states.cleared

\* Mutant of trackXAPI: the state follows the event, the stored score does not.
trackXAPI_StaleScore(cur, curScore, task, c, s) ==
  IF s = Null
    THEN [state |-> cur, score |-> curScore, cbState |-> <<>>, cbScore |-> <<>>,
          threw |-> FALSE]
  ELSE IF c.maxScore = NoMax
    THEN [state |-> cur, score |-> curScore, cbState |-> <<>>, cbScore |-> <<>>,
          threw |-> TRUE]
  ELSE LET r == setState(cur, task, Num(ScoredState(s, c.maxScore)), FALSE)
       IN  [state |-> r.state, score |-> curScore, cbState |-> r.fired,
            cbScore |-> <<curScore>>, threw |-> FALSE]

\* trackXAPI(event) for an event whose getScore() is s.
trackXAPI(cur, curScore, task, c, s) ==
  IF s = Null
    THEN [state |-> cur, score |-> curScore, cbState |-> <<>>, cbScore |-> <<>>,
          threw |-> FALSE]
  ELSE IF c.maxScore = NoMax
    THEN [state |-> cur, score |-> s, cbState |-> <<>>, cbScore |-> <<>>,
          threw |-> TRUE]
  ELSE LET r == setState(cur, task, Num(ScoredState(s, c.maxScore)), FALSE)
       IN  [state |-> r.state, score |-> s, cbState |-> r.fired, cbScore |-> <<s>>,
            threw |-> FALSE]

\* The embedded instance raises an xAPI event; the stage's listener, if it
\* subscribed, hands it to trackXAPI.
XAPIEvent(i) ==
  /\ Idle
  /\ xapiSubs[i] > 0
  /\ \E s \in EventScores :
       LET t == trackXAPI(state[i], score[i], IsTask(i), content[i], s)
       IN  /\ state' = [state EXCEPT ![i] = t.state]
           /\ score' = [score EXCEPT ![i] = t.score]
           /\ last' = [Quiet("xAPI", i) EXCEPT
                         !.cbState = t.cbState, !.cbScore = t.cbScore,
                         !.threw = t.threw, !.eventScore = s]
  /\ NoTurn
  /\ UNCHANGED << stages, resets, observerViews >>
  /\ UNCHANGED << instance, content, isAttached, isShowingSolutions, observer,
                  observing, pendingIdle, pendingFrames, factoryCalls, upRelays,
                  xapiSubs, attachCalls, observersCreated, mainListeners >>

\* ---------------------------------------------------------- resize relays
\* A trigger('resize') call in progress: on the main instance ("main") or on
\* the instance of a stage ("inst"), about to run its listener number pos.
MainFrame(k)    == [kind |-> "main", stage |-> 0, pos |-> k]
InstFrame(j, k) == [kind |-> "inst", stage |-> j, pos |-> k]

Top == stack[Len(stack)]
Pop == SubSeq(stack, 1, Len(stack) - 1)
Advance == [stack EXCEPT ![Len(stack)].pos = @ + 1]

\* The main instance raises `resize` (H5P's own resize, a window resize).
MainResize ==
  /\ Idle
  /\ stack' = << MainFrame(1) >>
  /\ seen' = 1
  /\ delivered' = NoDeliveries
  /\ last' = Quiet("mainResize", 0)
  /\ UNCHANGED << stageVars, bubblingUpwards >>

\* The callback handleViewed() handed to requestAnimationFrame:
\* Globals.get('resize')(), which is mainInstance.trigger('resize').
AnimationFrame(i) ==
  /\ Idle
  /\ pendingFrames[i] > 0
  /\ pendingFrames' = [pendingFrames EXCEPT ![i] = @ - 1]
  /\ stack' = << MainFrame(1) >>
  /\ seen' = 1
  /\ delivered' = NoDeliveries
  /\ last' = Quiet("animationFrame", i)
  /\ UNCHANGED << stages, instance, content, state, score, isAttached,
                  isShowingSolutions, observer, observing, pendingIdle, factoryCalls,
                  upRelays, xapiSubs, attachCalls, observersCreated, mainListeners,
                  bubblingUpwards, resets, observerViews >>

\* The embedded instance of stage i raises `resize`.
InstanceResize(i) ==
  /\ Idle
  /\ Truthy(instance[i])
  /\ stack' = << InstFrame(i, 1) >>
  /\ seen' = 0
  /\ delivered' = NoDeliveries
  /\ last' = Quiet("instanceResize", i)
  /\ UNCHANGED << stageVars, bubblingUpwards >>

\* Mutant of BubbleUpHandler: the flag is not set before target.trigger.
BubbleUpHandler_NoFlag ==
  /\ stack # <<>>
  /\ Top.kind = "inst"
  /\ Top.pos <= upRelays[Top.stage]
  /\ Len(stack) < MaxDepth
  /\ seen' = seen + 1
  /\ stack' = Append(Advance, MainFrame(1))
  /\ UNCHANGED << stageVars, bubblingUpwards, delivered, last >>

\* The listener bubbleUp registered runs: flag, then target.trigger.
BubbleUpHandler ==
  /\ stack # <<>>
  /\ Top.kind = "inst"
  /\ Top.pos <= upRelays[Top.stage]
  /\ Len(stack) < MaxDepth
  /\ bubblingUpwards' = TRUE
  /\ seen' = seen + 1
  /\ stack' = Append(Advance, MainFrame(1))
  /\ UNCHANGED << stageVars, delivered, last >>

\* Mutant of BubbleDownHandler: the bubblingUpwards test is missing.
BubbleDownHandler_NoFlagTest ==
  /\ stack # <<>>
  /\ Top.kind = "main"
  /\ Top.pos <= Len(mainListeners)
  /\ LET j == mainListeners[Top.pos]
     IN  IF ~isAttached[j]
           THEN /\ stack' = Advance
                /\ UNCHANGED delivered
           ELSE /\ Len(stack) < MaxDepth
                /\ delivered' = [delivered EXCEPT ![j] = @ + 1]
                /\ stack' = Append(Advance, InstFrame(j, 1))
  /\ UNCHANGED << stageVars, bubblingUpwards, seen, last >>

\* Mutant of BubbleDownHandler: the isAttached test is missing.
BubbleDownHandler_NoAttachedTest ==
  /\ stack # <<>>
  /\ Top.kind = "main"
  /\ Top.pos <= Len(mainListeners)
  /\ LET j == mainListeners[Top.pos]
     IN  IF bubblingUpwards
           THEN /\ stack' = Advance
                /\ UNCHANGED delivered
           ELSE /\ Len(stack) < MaxDepth
                /\ delivered' = [delivered EXCEPT ![j] = @ + 1]
                /\ stack' = Append(Advance, InstFrame(j, 1))
  /\ UNCHANGED << stageVars, bubblingUpwards, seen, last >>

\* The listener bubbleDown registered for a stage runs.
BubbleDownHandler ==
  /\ stack # <<>>
  /\ Top.kind = "main"
  /\ Top.pos <= Len(mainListeners)
  /\ LET j == mainListeners[Top.pos]
     IN  IF bubblingUpwards \/ ~isAttached[j]
           THEN /\ stack' = Advance
                /\ UNCHANGED delivered
           ELSE /\ Len(stack) < MaxDepth
                /\ delivered' = [delivered EXCEPT ![j] = @ + 1]
                /\ stack' = Append(Advance, InstFrame(j, 1))
  /\ UNCHANGED << stageVars, bubblingUpwards, seen, last >>

\* trigger() on the main instance has run all its listeners and returns; when
\* it was called by an upward relay, that relay clears the flag.
MainTriggerReturn ==
  /\ stack # <<>>
  /\ Top.kind = "main"
  /\ Top.pos > Len(mainListeners)
  /\ stack' = Pop
  /\ bubblingUpwards' = IF Len(stack) > 1 THEN FALSE ELSE bubblingUpwards
  /\ UNCHANGED << stageVars, seen, delivered, last >>

\* trigger() on an embedded instance has run all its listeners and returns.
InstanceTriggerReturn ==
  /\ stack # <<>>
  /\ Top.kind = "inst"
  /\ Top.pos > upRelays[Top.stage]
  /\ stack' = Pop
  /\ UNCHANGED << stageVars, bubblingUpwards, seen, delivered, last >>

\* ----------------------------------------------------------------- tallies
\* The operations are not counted.
Untallied == UNCHANGED << resets, observerViews >>

\* reset(), counted.
TallyReset(i) ==
  /\ resets[i] < MaxResets
  /\ Reset(i)
  /\ resets' = [resets EXCEPT ![i] = @ + 1]
  /\ UNCHANGED observerViews

\* The observer's callback, its handleViewed() call counted.
TallyIntersection(i) ==
  /\ Intersection(i)
  /\ observerViews' = [observerViews EXCEPT
                         ![i] = IF last'.op = "intersection" THEN @ + 1 ELSE @]
  /\ UNCHANGED resets

\* ------------------------------------------------------------------- Next
Next ==
  \/ \E i \in stages : GetScore(i)
  \/ \E i \in stages : GetMaxScore(i)
  \/ \E i \in stages : GetAnswerGiven(i)
  \/ \E i \in stages : GetXAPIData(i)
  \/ \E i \in stages : InitializeInstance(i)
  \/ \E i \in stages : AttachInstance(i)
  \/ \E i \in stages : ShowSolutions(i)
  \/ \E i \in stages : HandleViewed(i)
  \/ \E i \in stages : Reset(i) /\ Untallied
  \/ \E i \in stages : IdleCallback(i)
  \/ \E i \in stages : Intersection(i) /\ Untallied
  \/ \E i \in stages : SetState(i)
  \/ \E i \in stages : XAPIEvent(i)
  \/ \E i \in stages : AnimationFrame(i)
  \/ \E i \in stages : InstanceResize(i)
  \/ MainResize
  \/ BubbleUpHandler
  \/ BubbleDownHandler
  \/ MainTriggerReturn
  \/ InstanceTriggerReturn

\* The operations of a stage that change it, without setState calls from
\* outside the stage.
NextStage ==
  \/ \E i \in stages : InitializeInstance(i)
  \/ \E i \in stages : AttachInstance(i)
  \/ \E i \in stages : ShowSolutions(i)
  \/ \E i \in stages : HandleViewed(i)
  \/ \E i \in stages : Reset(i) /\ Untallied
  \/ \E i \in stages : IdleCallback(i)
  \/ \E i \in stages : Intersection(i) /\ Untallied
  \/ \E i \in stages : XAPIEvent(i)
  \/ \E i \in stages : AnimationFrame(i)
  \/ \E i \in stages : InstanceResize(i)
  \/ MainResize
  \/ BubbleUpHandler
  \/ BubbleDownHandler
  \/ MainTriggerReturn
  \/ InstanceTriggerReturn

\* The operations that bear on the relays, for a map of several stages.
NextRelay ==
  \/ \E i \in stages : InitializeInstance(i)
  \/ \E i \in stages : AttachInstance(i)
  \/ \E i \in stages : InstanceResize(i)
  \/ MainResize
  \/ BubbleUpHandler
  \/ BubbleDownHandler
  \/ MainTriggerReturn
  \/ InstanceTriggerReturn

\* reset() calls and the deferred steps they and handleViewed() leave behind:
\* idle callbacks, observer callbacks, animation frames and their resize.
NextObserver ==
  \/ \E i \in stages : TallyReset(i)
  \/ \E i \in stages : IdleCallback(i)
  \/ \E i \in stages : TallyIntersection(i)
  \/ \E i \in stages : AnimationFrame(i)
  \/ BubbleUpHandler
  \/ BubbleDownHandler
  \/ MainTriggerReturn
  \/ InstanceTriggerReturn

\* isInstanceTask on every combination of isTask flag and max-score query, by
\* itself and as setState('opened') uses it.
NextTask ==
  \/ \E i \in stages : IsInstanceTask(i)
  \/ \E i \in stages : GetMaxScore(i)
  \/ \E i \in stages : HandleViewed(i)

\* Spec: one stage under all its operations; SpecStage: the same without
\* setState calls from outside and without the queries.  The stages of a map share no state but the
\* main instance's resize listeners and its bubblingUpwards flag; SpecRelay is
\* the map of NumStages stages under the operations that bear on those.
Init      == InitMap(1)
InitRelay == InitMap(NumStages)
Spec      == Init /\ [][Next]_vars
SpecStage == Init /\ [][NextStage]_vars
SpecRelay == InitRelay /\ [][NextRelay]_vars
InitTask  == InitWith(1, Contents)
SpecTask  == InitTask /\ [][NextTask]_vars
SpecObserver == Init /\ [][NextObserver]_vars

\* The observer reports the container as intersecting.
Intersecting(i) == TallyIntersection(i) /\ last'.op = "intersection"

\* The turn of a resize in progress runs on: trigger() is synchronous.
RelayStep ==
  BubbleUpHandler \/ BubbleDownHandler \/ MainTriggerReturn \/ InstanceTriggerReturn

\* SpecObserver where the browser runs the callbacks it was handed (idle
\* callbacks, animation frames), a resize turn runs to its end, and an
\* observed container is reported as intersecting at some time.
Fairness ==
  /\ WF_vars(\E i \in stages : IdleCallback(i))
  /\ WF_vars(\E i \in stages : AnimationFrame(i))
  /\ WF_vars(RelayStep)
  /\ SF_vars(\E i \in stages : Intersecting(i))

SpecReveal == Init /\ [][NextObserver]_vars /\ Fairness

\* ================================================================ claims
\* The most recent operation was op on stage i.
Did(op, i) == last.op = op /\ last.stage = i

Registrations(i) == Cardinality({k \in 1 .. Len(mainListeners) : mainListeners[k] = i})

\* C1: for every stage and every outcome of the factory, the constructor and
\* any further initializeInstance() calls invoke the factory exactly once in
\* the stage's lifetime and register the upward relay, the downward relay and
\* the scoring subscription at most once each; an instance, once created, is
\* never replaced and never nulled.
C1_InstantiatedOnce ==
  [][\A i \in stages :
       /\ factoryCalls'[i] = 1
       /\ upRelays'[i] <= 1
       /\ Registrations(i)' <= 1
       /\ xapiSubs'[i] <= 1
       /\ Truthy(instance[i]) =>
            instance'[i] = instance[i] /\ content'[i] = content[i]]_vars

\* An operation that calls attachInstance() on stage i was the most recent one.
AttachOp(i) == Did("attachInstance", i) \/ Did("handleViewed", i) \/ Did("intersection", i)

\* C2: on a stage with an instance, attachInstance() and handleViewed() calls,
\* interleaved with the other operations, call the instance's attach exactly
\* once, on the first such call: isAttached turns true at that call and never
\* turns false again, and attaching registers no listener.
C2_AttachedOnce ==
  [][\A i \in stages :
       Truthy(instance[i]) =>
         /\ isAttached[i] => isAttached'[i]
         /\ attachCalls[i] = IF isAttached[i] THEN 1 ELSE 0
         /\ IF AttachOp(i)'
              THEN /\ isAttached'[i]
                   /\ attachCalls'[i] = 1
                   /\ last'.attach = IF isAttached[i] THEN 0 ELSE 1
                   /\ ~last'.threw
                   /\ UNCHANGED << upRelays, xapiSubs, mainListeners >>
              ELSE /\ attachCalls'[i] = attachCalls[i]
                   /\ isAttached'[i] = isAttached[i]]_vars

\* C2 witness: a second attaching call on an attached stage, which called
\* attach no more.
C2_Witness ==
  \E i \in stages :
    /\ Did("attachInstance", i) \/ Did("handleViewed", i)
    /\ last.attach = 0 /\ ~last.threw
    /\ isAttached[i] /\ attachCalls[i] = 1

\* The state setState('opened') resolves to on stage i.
Resolved(i) == IF IsTask(i) THEN states.opened ELSE states.cleared

OpenedCall(i) ==
  Did("setState", i) /\ last.request = Str("opened") /\ ~last.force

\* C3: setState('opened') stores `opened` on a task and `cleared` on a
\* non-task; from a stored state other than that one onStateChanged is called
\* exactly once, with the resolved code, and every further consecutive
\* setState('opened') calls nothing and leaves the state as it is.
C3_OpenedResolves ==
  [][\A i \in stages :
       OpenedCall(i)' =>
         /\ state'[i] = Resolved(i)
         /\ state[i] # Resolved(i) => last'.cbState = << Resolved(i) >>
         /\ OpenedCall(i) => last'.cbState = <<>> /\ state'[i] = state[i]
         /\ ~last'.threw]_vars

\* C3 witness: setState('opened') on a stage whose instance is no task stored
\* `cleared` and reported it.
C3_Witness ==
  \E i \in stages :
    /\ OpenedCall(i)
    /\ Truthy(instance[i]) /\ ~IsTask(i)
    /\ state[i] = states.cleared
    /\ last.cbState = << states.cleared >>

\* C4: a scoring event with score s on an instance with max score m: a null s
\* changes nothing and calls nothing; otherwise the score becomes s, the state
\* `completed` when s < m and `cleared` when s >= m, and onScoreChanged(s) is
\* called exactly once, also when the state did not change.
C4_ScoreTracked ==
  [][\A i \in stages :
       (Did("xAPI", i)' /\ content[i].maxScore # NoMax) =>
         LET s == last'.eventScore
             m == content[i].maxScore
         IN  IF s = Null
               THEN /\ state'[i] = state[i] /\ score'[i] = score[i]
                    /\ last'.cbState = <<>> /\ last'.cbScore = <<>>
               ELSE /\ score'[i] = s
                    /\ s < m => state'[i] = states.completed
                    /\ s >= m => state'[i] = states.cleared
                    /\ last'.cbScore = << s >>]_vars

\* C4 witness: a scoring event below the max score on a stage already
\* `completed`: the score callback is called, the state callback is not.
C4_Witness ==
  \E i \in stages :
    /\ Did("xAPI", i)
    /\ last.eventScore # Null /\ last.eventScore < content[i].maxScore
    /\ state[i] = states.completed
    /\ last.cbState = <<>> /\ last.cbScore = << last.eventScore >>

\* C5: reset() leaves score 0, state `unstarted` and isShowingSolutions false,
\* calls the instance's resetTask exactly once if the stage was attached and
\* not at all if it was not, and leaves the instance, isAttached and the
\* observer as they are.  (An instance with no resetTask has none to call.)
C5_ResetEffects ==
  [][\A i \in stages :
       Did("reset", i)' =>
         /\ score'[i] = 0
         /\ state'[i] = states.unstarted
         /\ ~isShowingSolutions'[i]
         /\ (isAttached[i] /\ content[i].resetTask) => last'.resetTask = 1
         /\ ~isAttached[i] => last'.resetTask = 0
         /\ UNCHANGED << instance, content, isAttached, observer, observing,
                         observersCreated >>]_vars

\* C5 witness: reset() of an attached stage whose observer exists called
\* resetTask once and reported `unstarted`.
C5_Witness ==
  \E i \in stages :
    /\ Did("reset", i)
    /\ isAttached[i] /\ observer[i]
    /\ last.resetTask = 1
    /\ last.cbState = << states.unstarted >>

\* An upward relay is in progress: a bubbleUp listener of an embedded instance
\* has called trigger() on the main instance, which has not returned.
InRelay ==
  \E k \in 2 .. Len(stack) : stack[k].kind = "main" /\ stack[k - 1].kind = "inst"

\* C6: when the embedded instance of a stage raises `resize`, the main
\* instance sees it exactly once and no downward relay delivers it to the
\* instance of that or any other stage within the turn, attached or not; the
\* bubblingUpwards flag is true exactly while an upward relay call runs and
\* false when it has returned.
C6_UpwardOnce ==
  /\ bubblingUpwards <=> InRelay
  /\ \A i \in stages :
       Did("instanceResize", i) =>
         /\ \A j \in stages : delivered[j] = 0
         /\ seen <= 1
         /\ stack = <<>> => seen = 1 /\ ~bubblingUpwards

\* C6 witness: the turn of a `resize` raised by an embedded instance has ended
\* on a map whose stages are all attached.
C6_Witness ==
  \E i \in stages :
    /\ Did("instanceResize", i)
    /\ stack = <<>> /\ seen = 1
    /\ \A j \in stages : isAttached[j]
    /\ Cardinality(stages) > 1

\* C7: a `resize` raised by the main instance is never delivered to the
\* instance of a stage that is not attached, and is delivered exactly once to
\* the instance of every stage that is.
C7_DownwardWhenAttached ==
  /\ \A j \in stages : delivered[j] <= 1
  /\ \A j \in stages : ~isAttached[j] => delivered[j] = 0
  /\ (Did("mainResize", 0) /\ stack = <<>>) =>
       \A j \in stages : isAttached[j] => delivered[j] = 1

\* C7 witness: the turn of a `resize` raised by the main instance has ended,
\* having reached the instance of an attached stage and not the instance of a
\* stage that is not attached.
C7_Witness ==
  /\ Did("mainResize", 0) /\ stack = <<>>
  /\ \E j, k \in stages :
       /\ isAttached[j] /\ delivered[j] = 1
       /\ Truthy(instance[k]) /\ ~isAttached[k] /\ delivered[k] = 0

\* The operations that call setState.
SetsState(op) == op \in {"setState", "reset", "handleViewed", "intersection", "xAPI"}

\* C8: for every stored state, `unstarted` included, onStateChanged is called
\* only when the resolved new state differs from the stored state: reset() or
\* setState(unstarted) on an unstarted stage calls nothing.
C8_SilentNoOps ==
  [][\A i \in stages :
       (SetsState(last'.op) /\ last'.stage = i /\ last'.cbState # <<>>) =>
         state'[i] # state[i]]_vars

\* C9: under handleViewed, scoring events, showSolutions and attachInstance the
\* state code never decreases; only reset() lowers it.
C9_Monotonic ==
  [][\A i \in stages :
       (last'.stage = i /\ last'.op \in {"handleViewed", "intersection", "xAPI",
                                        "showSolutions", "attachInstance"}) =>
         state'[i] >= state[i]]_vars

\* The requests setState has no branch for: a code other than unstarted,
\* opened, completed and cleared, a name that is not one of theirs, or a value
\* that is neither a number nor a string.
Rejected(request) ==
  \/ request.kind = "other"
  \/ /\ request.kind = "number"
     /\ request.code \notin {states.unstarted, states.opened, states.completed,
                             states.cleared}
  \/ /\ request.kind = "string"
     /\ request.name \notin {"unstarted", "opened", "completed", "cleared"}

ValidCodes == {states[n] : n \in DOMAIN states}

\* C10: a non-forced setState with such a request is rejected: the state is
\* unchanged and stays a valid code, onStateChanged is not called and nothing
\* is thrown.
C10_Rejected ==
  [][\A i \in stages :
       (Did("setState", i)' /\ ~last'.force /\ Rejected(last'.request)) =>
         /\ state'[i] = state[i]
         /\ state'[i] \in ValidCodes
         /\ last'.cbState = <<>>
         /\ ~last'.threw]_vars

\* The exposed operations that depend on the instance.
InstanceOps ==
  {"attachInstance", "handleViewed", "showSolutions", "getAnswerGiven", "getScore",
   "getMaxScore", "getXAPIData", "reset"}

\* The default a query returns: 0, false, or nothing.
Default(op) ==
  CASE op \in {"getScore", "getMaxScore"} -> Number(0)
    [] op = "getAnswerGiven" -> Boolean(FALSE)
    [] op = "getXAPIData" -> UndefinedRet
    [] OTHER -> NoReturn

\* C11: on a stage whose factory produced no instance, attachInstance,
\* handleViewed, showSolutions, getAnswerGiven, getScore, getMaxScore,
\* getXAPIData and reset complete without raising, return their default, leave
\* isAttached false, and change the state only as reset() does.
C11_InertWithoutInstance ==
  [][\A i \in stages :
       (~Truthy(instance[i]) /\ last'.stage = i /\ last'.op \in InstanceOps) =>
         /\ ~last'.threw
         /\ last'.returned = Default(last'.op)
         /\ ~isAttached'[i]
         /\ state'[i] = IF last'.op = "reset" THEN states.unstarted ELSE state[i]]_vars

\* C12: isInstanceTask: an isTask flag that is present is the result, also
\* when it is false and the max score is positive; with no flag the result is
\* true exactly when a max-score query exists and returns more than zero; no
\* instance is no task.
C12_TaskDetection ==
  \A i \in stages :
    Did("isInstanceTask", i) =>
      last.returned =
        Boolean(IF ~Truthy(instance[i]) THEN FALSE
                ELSE IF content[i].isTask # "absent" THEN content[i].isTask = "true"
                ELSE content[i].maxScore # NoMax /\ content[i].maxScore > 0)

\* The code a request names, for a request that names one of the table.
NamesCode(request) ==
  \/ request.kind = "number" /\ request.code \in ValidCodes
  \/ request.kind = "string" /\ request.name \in DOMAIN states

RequestedCode(request) ==
  IF request.kind = "string" THEN states[request.name] ELSE request.code

\* C13: setState(code, {force: true}) skips resolution and stores the
\* requested code itself (forcing `opened` on a non-task stores `opened`),
\* calls onStateChanged with that code when it differs from the stored state,
\* and leaves a valid state code stored.
C13_ForcedStoresCode ==
  [][\A i \in stages :
       (Did("setState", i)' /\ last'.force /\ NamesCode(last'.request)) =>
         LET code == RequestedCode(last'.request)
         IN  /\ state'[i] = code
             /\ state'[i] \in ValidCodes
             /\ state[i] # code => last'.cbState = << code >>]_vars

\* A handleViewed() that ran to its end on stage i was the most recent operation.
ViewedOp(i) == (Did("handleViewed", i) \/ Did("intersection", i)) /\ ~last.threw

Has(calls, c) == \E k \in 1 .. Len(calls) : calls[k] = c

\* Where both calls were made, a was made before b.
Precedes(calls, a, b) ==
  \A j, k \in 1 .. Len(calls) : (calls[j] = a /\ calls[k] = b) => j < k

\* The step runs a callback handleViewed() gave to requestAnimationFrame.
FrameStep(i) == pendingFrames'[i] = pendingFrames[i] - 1

\* C14 as stated: every resize caused by handleViewed() happens when
\* isAttached is true and the state is the one setState('opened') resolved to.
C14_ResizeInViewedState ==
  [][\A i \in stages :
       (FrameStep(i) /\ Truthy(instance[i])) =>
         isAttached[i] /\ state[i] = Resolved(i)]_vars

\* C14, amended: handleViewed() on a stage with an instance calls
\* attachInstance, then showSolutions if and only if the flag is set, then
\* setState('opened'), then requestAnimationFrame; it leaves the stage
\* attached, in the resolved state, with the resize pending and not raised.
\* The resize is raised by the animation-frame step, when isAttached is true;
\* the state is the resolved one when that step follows the handleViewed()
\* directly, and may have been changed by an operation in between.
C14_ViewedThenResize ==
  [][\A i \in stages :
       Truthy(instance[i]) =>
         /\ ViewedOp(i)' =>
              /\ Has(last'.calls, "attachInstance")
              /\ Has(last'.calls, "showSolutions") <=> isShowingSolutions[i]
              /\ Has(last'.calls, "setState")
              /\ Has(last'.calls, "requestAnimationFrame")
              /\ Precedes(last'.calls, "attachInstance", "showSolutions")
              /\ Precedes(last'.calls, "attachInstance", "setState")
              /\ Precedes(last'.calls, "showSolutions", "setState")
              /\ Precedes(last'.calls, "setState", "requestAnimationFrame")
              /\ isAttached'[i]
              /\ state'[i] = Resolved(i)
              /\ pendingFrames'[i] > 0
              /\ stack' = << >> /\ seen' = 0
         /\ FrameStep(i) =>
              /\ isAttached[i]
              /\ stack = << >> /\ seen' = 1
              /\ ViewedOp(i) => state[i] = Resolved(i)]_vars

\* C14 witness: the resize of a handleViewed() that re-applied the solutions
\* has been raised in its animation frame.
C14_Witness ==
  \E i \in stages :
    /\ Did("animationFrame", i)
    /\ Truthy(instance[i])
    /\ isAttached[i]
    /\ isShowingSolutions[i]
    /\ state[i] = Resolved(i)
    /\ pendingFrames[i] = 0
    /\ seen = 1

\* C15: isShowingSolutions is true exactly when showSolutions() was requested
\* on the stage and no reset() happened since: false at first, set by every
\* showSolutions(), cleared by every reset(), left alone by everything else.
\* handleViewed() on an instance that offers showSolutions invokes it if and
\* only if the flag is set, after the instance is attached.
C15_SolutionsFlag ==
  /\ \A i \in stages : ~isShowingSolutions[i]
  /\ [][\A i \in stages :
          /\ isShowingSolutions'[i] =
               IF Did("showSolutions", i)' THEN TRUE
               ELSE IF Did("reset", i)' THEN FALSE
               ELSE isShowingSolutions[i]
          /\ (ViewedOp(i)' /\ Truthy(instance[i]) /\ content[i].showSolutions) =>
               /\ last'.showSolutions = IF isShowingSolutions[i] THEN 1 ELSE 0
               /\ Has(last'.calls, "showSolutions") <=> isShowingSolutions[i]
               /\ Precedes(last'.calls, "attachInstance", "showSolutions")
               /\ isAttached'[i]]_vars

\* C15 witness: a handleViewed() that attached the instance and re-applied
\* the solutions requested before.
C15_Witness ==
  \E i \in stages :
    /\ ViewedOp(i)
    /\ last.attach = 1
    /\ last.showSolutions = 1
    /\ isShowingSolutions[i]

\* The step runs a callback reset() gave to requestIdleCallback.
IdleStep(i) == pendingIdle'[i] = pendingIdle[i] - 1

\* The step is a reset() of stage i.
ResetStep(i) == resets'[i] = resets[i] + 1

ObserverViewStep(i) == observerViews'[i] = observerViews[i] + 1

\* C17: reset() leaves the observation as it is and hands its installation to
\* an idle callback, which alone starts it; an observer callback that reports
\* the container as intersecting stops the observation before it calls
\* handleViewed(); the handleViewed() calls by the observer never outnumber
\* the reset() calls.
C17_OneShot ==
  [][\A i \in stages :
       /\ ResetStep(i) =>
            /\ observing'[i] = observing[i]
            /\ pendingIdle'[i] = pendingIdle[i] + 1
       /\ (observing'[i] /\ ~observing[i]) => IdleStep(i)
       /\ ObserverViewStep(i) =>
            /\ observing[i] /\ ~observing'[i]
            /\ last'.calls[1] = "unobserve"
            /\ Precedes(last'.calls, "unobserve", "attachInstance")
            /\ Has(last'.calls, "attachInstance")
       /\ observerViews'[i] <= resets'[i]]_vars

\* C17 witness: the observer has called handleViewed() once for each of
\* several reset() calls.
C17_Witness ==
  \E i \in stages :
    /\ Did("intersection", i)
    /\ resets[i] >= 2
    /\ observerViews[i] = resets[i]
    /\ ~observing[i]

\* The listeners a trigger() call in progress has yet to run, and one more
\* for its return.
Left(frame) ==
  1 + (IF frame.kind = "main" THEN Len(mainListeners) ELSE upRelays[frame.stage])
    - (frame.pos - 1)

MaxOf(S) == CHOOSE x \in S : \A y \in S : y <= x

\* More than any trigger() call has left.
Base == 2 + MaxOf({Len(mainListeners)} \cup {upRelays[j] : j \in stages})

RECURSIVE Pow(_, _)
Pow(b, n) == IF n = 0 THEN 1 ELSE b * Pow(b, n - 1)

\* The work left in a turn: what the calls in progress have left, outermost
\* call first, read as the digits of one number.
RECURSIVE Rank(_, _)
Rank(s, d) ==
  IF d > MaxDepth THEN 0
  ELSE (IF d <= Len(s) THEN Left(s[d]) ELSE 0) * Pow(Base, MaxDepth - d) + Rank(s, d + 1)

\* C18: one `resize`, raised by the main instance or by an embedded instance,
\* causes finitely many relay deliveries and then stops: every step of the
\* turn lessens the work left, and a turn in progress can always take its next
\* step.  A resize of the main instance reaches each attached instance at most
\* once (and exactly once by the end of the turn), each attached stage relays
\* it back up at most once, and nothing is delivered downward while an upward
\* relay runs.
C18_RelayTerminates ==
  /\ [](stack # << >> => ENABLED RelayStep)
  /\ [][/\ stack # << >> => Rank(stack', 1) < Rank(stack, 1)
        /\ \A j \in stages : delivered'[j] <= 1
        /\ seen' <= 1 + Cardinality({j \in stages : isAttached[j]})
        /\ bubblingUpwards => delivered' = delivered
        /\ (Did("mainResize", 0)' /\ stack' = << >>) =>
             /\ \A j \in stages : delivered'[j] = IF isAttached[j] THEN 1 ELSE 0
             /\ ~bubblingUpwards']_vars

\* C18 witness: the turn of a `resize` of the main instance has ended on a map
\* of several stages, all attached: each instance received it once and
\* relayed it back up once.
C18_Witness ==
  /\ Did("mainResize", 0) /\ stack = << >>
  /\ Cardinality(stages) > 1
  /\ \A j \in stages : isAttached[j] /\ delivered[j] = 1 /\ upRelays[j] = 1
  /\ seen = 1 + Cardinality(stages)

\* The stages of Init.
SoleStage == 1 .. 1

\* handleViewed() has attached the instance and resolved the state, and the
\* resize it scheduled has been raised.
Revealed(i) ==
  /\ isAttached[i]
  /\ state[i] = Resolved(i)
  /\ Did("animationFrame", i)
  /\ pendingFrames[i] = 0

\* C19: on a stage with an instance, after the k-th reset(), when the idle
\* callback runs and the container is reported as intersecting, either a
\* further reset() comes or the stage gets attached, its state leaves
\* `unstarted` for `opened` (a task) or `cleared` (not a task), and the resize
\* is raised.
C19_Reveal ==
  \A i \in SoleStage : \A k \in 1 .. MaxResets :
    (Truthy(instance[i]) /\ resets[i] = k) ~> (resets[i] > k \/ Revealed(i))

\* C19 witness: after reset() the observer has called handleViewed() and the
\* resize has been raised, on a task.
C19_Witness ==
  \E i \in stages :
    /\ resets[i] >= 1
    /\ observerViews[i] >= 1
    /\ IsTask(i)
    /\ Revealed(i)
    /\ state[i] = states.opened
    /\ stack = << >>

\* C20: under the stage's own operations, with the instance's max score m
\* fixed, a task stage in state `completed` has a recorded score below m and
\* one in state `cleared` a recorded score of at least m; a stage that is not
\* a task (it subscribed to no scoring events) is in `unstarted` or `cleared`
\* only.
C20_StateScore ==
  \A i \in stages :
    IF IsTask(i)
      THEN /\ xapiSubs[i] > 0
           /\ state[i] = states.completed => score[i] < content[i].maxScore
           /\ state[i] = states.cleared =>
                score[i] # Undefined /\ score[i] >= content[i].maxScore
      ELSE /\ xapiSubs[i] = 0
           /\ state[i] \in {states.unstarted, states.cleared}

\* C20 witness: a scoring event with the full score has cleared a task stage
\* that had been viewed.
C20_Witness ==
  \E i \in stages :
    /\ Did("xAPI", i)
    /\ IsTask(i)
    /\ isAttached[i]
    /\ content[i].maxScore > 0
    /\ state[i] = states.cleared
    /\ score[i] = content[i].maxScore

====
